---- MODULE Spec2Model ----
(***************************************************************************)
(* A model of src/src/IssueProcessor.ts: the stale-issue processor.        *)
(*                                                                         *)
(* One run of processIssues is a sequential program that suspends at each  *)
(* external call (getIssues, createComment, addLabels, listEvents,         *)
(* listComments, removeLabel, update).  pc names the call the run is       *)
(* suspended on; each action is "the pending call returns (or fails) and   *)
(* the code runs on to the next call".                                     *)
(*                                                                         *)
(* Time is counted in ticks of 100 ms, so that a day still fits TLC's      *)
(* integers and Date.toString()'s loss of the milliseconds stays visible.  *)
(* A timestamp string is represented by the instant it denotes.            *)
(***************************************************************************)
EXTENDS Integers, Sequences, FiniteSets, TLC

----------------------------------------------------------------------------
(* Bounds of the model *)

MaxOps == 2              \* operationsPerRun ranges over 0..MaxOps
MaxPageLen == 2          \* a page holds at most this many items
MaxDaysBeforeStale == 1  \* daysBeforeStale ranges over 0..MaxDaysBeforeStale
MaxDaysBeforeClose == 1  \* daysBeforeClose ranges over -1..MaxDaysBeforeClose
MaxAgeDays == 2          \* an item was last updated 0..MaxAgeDays days before NowStart
MaxElapsed == 1          \* the clock advances at most this many ticks in all
MaxComments == 2         \* listComments returns at most this many comments
MaxEvents == 2           \* listEvents returns at most this many events
MaxIssueNumber == 1      \* issue numbers range over 1..MaxIssueNumber
MaxRuns == 2             \* the processor is constructed and run at most this often
MaxRepositoryLen == 2    \* a repository holds at most this many open items
MaxScenarioDaysBeforeStale == 4  \* in front of a repository, daysBeforeStale ranges
                                 \* over 0..MaxScenarioDaysBeforeStale and 60

----------------------------------------------------------------------------
(* Time *)

\* Date.toString() prints whole seconds: one second is 10 ticks of 100 ms
SecondTicks == 10

\* 1000 * 60 * 60 * 24 ms, in ticks
DayTicks == 60 * 60 * 24 * SecondTicks

\* the clock when the first run starts (a whole second)
NowStart == 1000 * DayTicks

\* new Date(): the clock never runs backwards; it may have advanced one tick
ClockReads(clock) == {t \in {clock, clock + 1} : t <= NowStart + MaxElapsed}

\* Date.prototype.toString followed by new Date(string): the milliseconds are lost
DateToString(t) == (t \div SecondTicks) * SecondTicks

\* a timestamp that is missing: undefined (getLabelCreationDate found no event)
\* or the empty string; both are falsy, and new Date('').getTime() is NaN
Undefined == -1

\* mutant of updatedSince: the boundary is excluded
updatedSince_strict(timestamp, num_days, clock) ==
    timestamp # Undefined /\ clock - timestamp < DayTicks * num_days

\* updatedSince(timestamp, num_days), with the reading of new Date() made explicit;
\* every comparison with NaN is false
updatedSince(timestamp, num_days, clock) ==
    LET daysInMillis == DayTicks * num_days
        millisSinceLastUpdated == clock - timestamp
    IN  IF timestamp = Undefined THEN FALSE
        ELSE millisSinceLastUpdated <= daysInMillis

----------------------------------------------------------------------------
(* Label names: sequences of characters.  "A" is the capital of "a",       *)
(* "a^" is "a" with an accent, "A^" its capital.                           *)

Lower(c) ==
    CASE c = "A"  -> "a"
      [] c = "A^" -> "a^"
      [] c = "B"  -> "b"
      [] c = "C"  -> "c"
      [] OTHER    -> c

\* the letter without its accent
Unaccented(c) ==
    CASE c = "a^" -> "a"
      [] c = "A^" -> "A"
      [] OTHER    -> c

\* mutant of localeCompareAccent: sensitivity 'base', accents are ignored as well
localeCompareBase(x, y) ==
    /\ Len(x) = Len(y)
    /\ \A k \in 1..Len(x) : Lower(Unaccented(x[k])) = Lower(Unaccented(y[k]))

\* label.localeCompare(name, undefined, {sensitivity: 'accent'}) === 0:
\* letter case is ignored, base letters and accents are compared
localeCompareAccent(x, y) ==
    /\ Len(x) = Len(y)
    /\ \A k \in 1..Len(x) : Lower(x[k]) = Lower(y[k])

isLabeled(issue, label) ==
    Cardinality({l \in issue.labels : localeCompareAccent(label, l)}) > 0

RECURSIVE split(_)
\* String.prototype.split(',')
split(s) ==
    IF s = <<>> THEN << <<>> >>
    ELSE IF Head(s) = "," THEN << <<>> >> \o split(Tail(s))
    ELSE LET r == split(Tail(s)) IN << <<Head(s)>> \o Head(r) >> \o Tail(r)

RECURSIVE trimStart(_)
trimStart(s) == IF s # <<>> /\ Head(s) = " " THEN trimStart(Tail(s)) ELSE s

RECURSIVE trimEnd(_)
trimEnd(s) ==
    IF s # <<>> /\ s[Len(s)] = " " THEN trimEnd(SubSeq(s, 1, Len(s) - 1)) ELSE s

\* String.prototype.trim()
trim(s) == trimEnd(trimStart(s))

parseCommaSeparatedString(s) ==
    IF Len(s) = 0 THEN <<>>
    ELSE LET parts == split(s) IN [k \in 1..Len(parts) |-> trim(parts[k])]

----------------------------------------------------------------------------
(* Configuration *)

\* the texts of the configuration: the stale message ("" opts the item type out),
\* the stale label and the raw comma-separated exempt list, per item type
TextConfigs ==
    { [staleIssueMessage |-> "stale issue", stalePrMessage |-> "",
       staleIssueLabel |-> <<"a">>, stalePrLabel |-> <<"a">>,
       exemptIssueLabels |-> <<"b", ",", " ", "C">>, exemptPrLabels |-> <<>>],
      [staleIssueMessage |-> "stale issue", stalePrMessage |-> "stale pr",
       staleIssueLabel |-> <<"a">>, stalePrLabel |-> <<"A^">>,
       exemptIssueLabels |-> <<>>, exemptPrLabels |-> <<"c">>] }

\* IssueProcessorOptions (repoToken and onlyLabels only parameterise the transport)
OptionsSet ==
    { [ staleIssueMessage      |-> l.staleIssueMessage,
        stalePrMessage         |-> l.stalePrMessage,
        daysBeforeStale        |-> s,
        daysBeforeClose        |-> c,
        staleIssueLabel        |-> l.staleIssueLabel,
        exemptIssueLabels      |-> l.exemptIssueLabels,
        stalePrLabel           |-> l.stalePrLabel,
        exemptPrLabels         |-> l.exemptPrLabels,
        operationsPerRun       |-> o,
        removeStaleWhenUpdated |-> r,
        debugOnly              |-> d ] :
      l \in TextConfigs,
      s \in 0..MaxDaysBeforeStale, c \in -1..MaxDaysBeforeClose,
      o \in 0..MaxOps, r \in BOOLEAN, d \in BOOLEAN }

\* github.context.actor
Actor == "actor"

----------------------------------------------------------------------------
(* What the collaborators can return *)

IssueNumbers == 1..MaxIssueNumber

\* timestamps the API reports: whole seconds, 0..MaxAgeDays days before NowStart
Timestamps == {NowStart - k * DayTicks : k \in 0..MaxAgeDays}

LabelSets ==
    { {}, {<<"a">>}, {<<"A">>}, {<<"a^">>}, {<<"b">>}, {<<"c">>},
      {<<"a">>, <<"b">>}, {<<"a^">>, <<"c">>} }

\* interface Issue (title plays no part)
Issues ==
    [ number : IssueNumbers, updated_at : Timestamps, labels : LabelSets,
      pull_request : BOOLEAN, state : {"open", "closed"}, locked : BOOLEAN ]

\* interface Comment
Comments ==
    { [user |-> [type |-> "User", login |-> Actor]],
      [user |-> [type |-> "User", login |-> "alice"]],
      [user |-> [type |-> "Bot",  login |-> "helper[bot]"]] }

SeqsUpTo(S, n) == UNION {[1..k -> S] : k \in 0..n}

NoIssue == [number |-> 0, updated_at |-> 0]

\* mutant of labelCreationDate: the events are not reversed, the oldest one is found
labelCreationDate_oldest(events, label) ==
    LET matching == {k \in 1..Len(events) :
                        events[k].event = "labeled" /\ events[k].label.name = label}
    IN  IF matching = {} THEN Undefined
        ELSE events[CHOOSE k \in matching : \A j \in matching : k <= j].created_at

\* the tail of getLabelCreationDate: the most recent 'labeled' event naming the label
labelCreationDate(events, label) ==
    LET matching == {k \in 1..Len(events) :
                        events[k].event = "labeled" /\ events[k].label.name = label}
    IN  IF matching = {} THEN Undefined
        ELSE events[CHOOSE k \in matching : \A j \in matching : j <= k].created_at

\* the filter of hasCommentsSince
filteredComments(comments) ==
    {k \in 1..Len(comments) :
        comments[k].user.type = "User" /\ comments[k].user.login # Actor}

----------------------------------------------------------------------------
(* State *)

VARIABLES
    options,            \* this.options
    operationsLeft,     \* this.operationsLeft
    staleIssues,        \* this.staleIssues, as issue numbers
    closedIssues,       \* this.closedIssues, as issue numbers
    removedLabelIssues, \* this.removedLabelIssues, as issue numbers
    page,               \* processIssues' parameter
    issuesLength,       \* issues.length of the page being processed
    index,              \* position of the for loop in the page (1-based)
    issue,              \* the item being evaluated: its number and its updated_at,
                        \* which markStale rewrites (no other field is read again)
    staleLabel,         \* local of processIssues
    isStale,            \* local of processIssues
    markedStaleOn,      \* local of processStaleIssue
    issueHasComments,   \* local of processStaleIssue
    issueHasUpdate,     \* local of processStaleIssue
    pc,                 \* the external call the run is suspended on, or where it ended
    now,                \* the clock
    calls,              \* external calls attempted in this run, by kind
    addedLabels,        \* per issue number: labels this processor added and has not removed
    run,                \* how many processors have been constructed
    source,             \* what answers getIssues and listEvents (see below)
    issues,             \* the page getIssues returned, when the source fixes its
                        \* items; <<>> when each item is drawn as the loop reaches it
    evaluated,          \* per issue number: how often the loop body was entered for
                        \* it in this run (0, 1, or 2 for twice or more)
    applied,            \* the mutations this run has applied to the repository, by issue number
    ev                  \* observation of the current evaluation of one item

vars == << options, operationsLeft, staleIssues, closedIssues, removedLabelIssues,
           page, issuesLength, index, issue, staleLabel, isStale, markedStaleOn,
           issueHasComments, issueHasUpdate, pc, now, calls, addedLabels, run,
           source, issues, evaluated, applied, ev >>

CallSites ==
    {"getIssues", "createComment", "addLabels", "listEvents", "listComments",
     "removeLabel", "update"}

NoCalls == [k \in CallSites |-> 0]

\* nothing observed: no evaluation is under way
NoEv ==
    [ kind |-> "none", emptyMessage |-> FALSE, closed |-> FALSE, locked |-> FALSE,
      exempt |-> FALSE, hadStale |-> FALSE, recent |-> FALSE, ops0 |-> 0,
      markStale |-> FALSE, closeIssue |-> FALSE, removeLabel |-> FALSE,
      reads |-> 0, writes |-> 0, qualifying |-> 0, expired |-> FALSE,
      labelledAt |-> Undefined ]

\* no call that changes the repository has returned yet
NoneApplied == [commented |-> {}, labelled |-> {}, unlabelled |-> {}, closed |-> {}]

\* the open source: any page of any items at every request
AnySource ==
    [ kind |-> "any", open |-> <<>>, perPage |-> MaxPageLen,
      eventTimes |-> {NowStart - DayTicks, NowStart - 2 * DayTicks} ]

\* interface IssueEvent
IssueEvents ==
    [ created_at : source.eventTimes,
      event : {"labeled", "unlabeled"},
      label : [name : {<<"a">>, <<"A^">>}] ]

\* the constructor, and a run about to start
Constructed ==
    /\ issues = <<>>
    /\ operationsLeft = options.operationsPerRun
    /\ staleIssues = <<>>
    /\ closedIssues = <<>>
    /\ removedLabelIssues = <<>>
    /\ page = 1
    /\ issuesLength = 0
    /\ index = 0
    /\ issue = NoIssue
    /\ staleLabel = <<>>
    /\ isStale = FALSE
    /\ markedStaleOn = Undefined
    /\ issueHasComments = FALSE
    /\ issueHasUpdate = FALSE
    /\ pc = "getIssues"
    /\ now = NowStart
    /\ calls = NoCalls
    /\ run = 1
    /\ evaluated = [n \in DOMAIN addedLabels |-> 0]
    /\ applied = NoneApplied
    /\ ev = NoEv

\* a processor of any configuration in front of the open source
Init ==
    /\ options \in OptionsSet
    /\ source = AnySource
    /\ addedLabels = [n \in IssueNumbers |-> {}]
    /\ Constructed

locals == << issue, staleLabel, isStale, markedStaleOn, issueHasComments, issueHasUpdate >>
lists == << staleIssues, closedIssues, removedLabelIssues >>
paging == << page, issuesLength, index >>

Called(site) == [calls EXCEPT ![site] = @ + 1]

----------------------------------------------------------------------------
(* processIssues: fetching a page *)

min(a, b) == IF a <= b THEN a ELSE b

\* client.issues.listForRepo({state: 'open', per_page, page}) on a repository:
\* the page-th slice of the items open at the time of the request
RepositoryPage(pg) ==
    LET first == (pg - 1) * source.perPage + 1
        last  == min(pg * source.perPage, Len(source.open))
    IN  IF first > last THEN <<>> ELSE SubSeq(source.open, first, last)

\* what getIssues(page) can return: its length, and its items if the source fixes them
FetchedPages(pg) ==
    IF source.kind = "any"
    THEN {[length |-> n, items |-> <<>>] : n \in 0..MaxPageLen}
    ELSE {[length |-> Len(RepositoryPage(pg)), items |-> RepositoryPage(pg)]}

\* what the loop can find at its position in the page
ItemsAt(k) == IF source.kind = "any" THEN Issues ELSE {issues[k]}

\* mutant of GetIssues: the fetch is not charged to the budget
GetIssues_uncharged ==
    /\ pc = "getIssues"
    /\ \E fetched \in FetchedPages(page) :
        /\ calls' = Called("getIssues")
        /\ issues' = fetched.items
        /\ issuesLength' = fetched.length
        /\ IF fetched.length <= 0
           THEN index' = 0 /\ pc' = "done"
           ELSE index' = 1 /\ pc' = "item"
    /\ UNCHANGED << options, applied, evaluated, source, operationsLeft, lists, page, locals, now, addedLabels,
                    run, ev >>

\* getIssues(page) returns a page of n items
GetIssues ==
    /\ pc = "getIssues"
    /\ \E fetched \in FetchedPages(page) :
        /\ calls' = Called("getIssues")
        /\ operationsLeft' = operationsLeft - 1
        /\ issues' = fetched.items
        /\ issuesLength' = fetched.length
        /\ IF fetched.length <= 0
           THEN index' = 0 /\ pc' = "done"
           ELSE index' = 1 /\ pc' = "item"
    /\ UNCHANGED << options, applied, evaluated, source, lists, page, locals, now, addedLabels, run, ev >>

----------------------------------------------------------------------------
(* processIssues: the head of one iteration of the for loop *)

\* the item at the loop's position: what the source holds for it, with the
\* labels this processor has added to that issue and not removed
Returned(i) == [i EXCEPT !.labels = @ \cup addedLabels[i.number]]

staleMessageOf(i) ==
    IF i.pull_request THEN options.stalePrMessage ELSE options.staleIssueMessage

staleLabelOf(i) ==
    IF i.pull_request THEN options.stalePrLabel ELSE options.staleIssueLabel

exemptLabelsOf(i) ==
    parseCommaSeparatedString(
        IF i.pull_request THEN options.exemptPrLabels ELSE options.exemptIssueLabels)

hasExemptLabel(i) ==
    \E k \in 1..Len(exemptLabelsOf(i)) : isLabeled(i, exemptLabelsOf(i)[k])

\* mutant of skipped: locked items are not skipped
skipped_withoutLocked(i) ==
    \/ staleMessageOf(i) = ""
    \/ i.state = "closed"
    \/ hasExemptLabel(i)

\* the four 'continue' statements at the top of the loop body
skipped(i) ==
    \/ staleMessageOf(i) = ""
    \/ i.state = "closed"
    \/ i.locked
    \/ hasExemptLabel(i)

\* mutant of carriesStaleLabel: any label at all counts as the stale label
carriesStaleLabel_anyLabel(i) == i.labels # {}

\* line 153: does this issue have a stale label?
carriesStaleLabel(i) == isLabeled(i, staleLabelOf(i))

\* line 156: should this issue be marked stale?
shouldBeStale(i, clock) == ~updatedSince(i.updated_at, options.daysBeforeStale, clock)

\* mutant of needsMarking: the stale label is not consulted
needsMarking_ignoringLabel(i, clock) == shouldBeStale(i, clock)

\* line 162: determine if this issue needs to be marked stale first
needsMarking(i, clock) == ~carriesStaleLabel(i) /\ shouldBeStale(i, clock)

\* mutant of newUpdatedAtDate: back-dated by the close threshold as well
newUpdatedAtDate_byBothThresholds(clock) ==
    DateToString(clock - DayTicks * (options.daysBeforeStale + options.daysBeforeClose))

\* markStale: the timestamp written to issue.updated_at
newUpdatedAtDate(clock) == DateToString(clock - DayTicks * options.daysBeforeStale)

\* the loop body is entered for item i
Entered(i) == [evaluated EXCEPT ![i.number] = min(@ + 1, 2)]

\* what an evaluation starts from
Begin(i, clock) ==
    [ NoEv EXCEPT
        !.kind = "evaluating",
        !.emptyMessage = (staleMessageOf(i) = ""),
        !.closed = (i.state = "closed"),
        !.locked = i.locked,
        !.exempt = hasExemptLabel(i),
        !.hadStale = isLabeled(i, staleLabelOf(i)),
        !.recent = (clock - i.updated_at <= options.daysBeforeStale * DayTicks),
        !.ops0 = operationsLeft ]

\* the item is skipped
SkipIssue ==
    /\ pc = "item"
    /\ \E src \in ItemsAt(index) :
        LET i == Returned(src) IN
        /\ skipped(i)
        /\ ev' = Begin(i, now)
        /\ evaluated' = Entered(i)
        /\ pc' = "next"
    /\ UNCHANGED << options, applied, source, issues, operationsLeft, lists, paging, locals, now, calls,
                    addedLabels, run >>

\* neither stale nor due to become stale: nothing to do
NotStale ==
    /\ pc = "item"
    /\ \E src \in ItemsAt(index) : \E t \in ClockReads(now) :
        LET i == Returned(src) IN
        /\ ~skipped(i)
        /\ ~needsMarking(i, t)
        /\ ~carriesStaleLabel(i)
        /\ now' = t
        /\ ev' = Begin(i, t)
        /\ evaluated' = Entered(i)
        /\ pc' = "next"
    /\ UNCHANGED << options, applied, source, issues, operationsLeft, lists, paging, locals, calls,
                    addedLabels, run >>

\* markStale up to its first external call; in debug mode it returns at once and
\* processStaleIssue runs up to its first external call
MarkStale ==
    /\ pc = "item"
    /\ \E src \in ItemsAt(index) : \E t \in ClockReads(now) : \E t2 \in ClockReads(t) :
        LET i == Returned(src) IN
        /\ ~skipped(i)
        /\ needsMarking(i, t)
        /\ staleIssues' = Append(staleIssues, i.number)
        /\ issue' = [number |-> i.number, updated_at |-> newUpdatedAtDate(t2)]
        /\ staleLabel' = staleLabelOf(i)
        /\ now' = t2
        /\ ev' = [Begin(i, t) EXCEPT !.markStale = TRUE]
        /\ evaluated' = Entered(i)
        /\ IF options.debugOnly
           THEN /\ isStale' = TRUE
                /\ operationsLeft' = (operationsLeft - 2) - 1 \* getLabelCreationDate
                /\ pc' = "listEvents"
           ELSE /\ isStale' = FALSE
                /\ operationsLeft' = operationsLeft - 2
                /\ pc' = "createComment"
    /\ UNCHANGED << options, applied, source, issues, closedIssues, removedLabelIssues, paging, markedStaleOn,
                    issueHasComments, issueHasUpdate, calls, addedLabels, run >>

\* the item carries the stale label: processStaleIssue up to its first external call
FoundStale ==
    /\ pc = "item"
    /\ \E src \in ItemsAt(index) : \E t \in ClockReads(now) :
        LET i == Returned(src) IN
        /\ ~skipped(i)
        /\ ~needsMarking(i, t)
        /\ carriesStaleLabel(i)
        /\ issue' = [number |-> i.number, updated_at |-> i.updated_at]
        /\ staleLabel' = staleLabelOf(i)
        /\ now' = t
        /\ ev' = Begin(i, t)
        /\ evaluated' = Entered(i)
    /\ isStale' = TRUE
    /\ operationsLeft' = operationsLeft - 1 \* getLabelCreationDate
    /\ pc' = "listEvents"
    /\ UNCHANGED << options, applied, source, issues, lists, paging, markedStaleOn, issueHasComments,
                    issueHasUpdate, calls, addedLabels, run >>

----------------------------------------------------------------------------
(* markStale: the two mutations *)

\* the repository after labels were added to issue n
WithLabel(open, n, label) ==
    [k \in DOMAIN open |->
        IF open[k].number = n THEN [open[k] EXCEPT !.labels = @ \cup {label}]
        ELSE open[k]]

\* the repository after the label named name was removed from issue n
\* (the repository does not tell label names apart by letter case)
WithoutLabel(open, n, name) ==
    [k \in DOMAIN open |->
        IF open[k].number = n
        THEN [open[k] EXCEPT !.labels = {l \in @ : ~localeCompareAccent(name, l)}]
        ELSE open[k]]

\* the repository after issue n was closed: it is no longer among the open items
WithoutIssue(open, n) == SelectSeq(open, LAMBDA i : i.number # n)

\* client.issues.createComment returns
CreateComment ==
    /\ pc = "createComment"
    /\ calls' = Called("createComment")
    /\ applied' = [applied EXCEPT !.commented = @ \cup {issue.number}]
    /\ ev' = [ev EXCEPT !.writes = @ + 1]
    /\ pc' = "addLabels"
    /\ UNCHANGED << options, evaluated, source, issues, operationsLeft, lists, paging, locals, now,
                    addedLabels, run >>

\* client.issues.addLabels returns; markStale returns; processStaleIssue starts
AddLabels ==
    /\ pc = "addLabels"
    /\ calls' = Called("addLabels")
    /\ applied' = [applied EXCEPT !.labelled = @ \cup {issue.number}]
    /\ ev' = [ev EXCEPT !.writes = @ + 1]
    /\ addedLabels' = [addedLabels EXCEPT ![issue.number] = @ \cup {staleLabel}]
    /\ source' = [source EXCEPT !.open = WithLabel(@, issue.number, staleLabel)]
    /\ isStale' = TRUE
    /\ operationsLeft' = operationsLeft - 1 \* getLabelCreationDate
    /\ pc' = "listEvents"
    /\ UNCHANGED << options, evaluated, issues, lists, paging, issue, staleLabel, markedStaleOn,
                    issueHasComments, issueHasUpdate, now, run >>

----------------------------------------------------------------------------
(* processStaleIssue *)

\* observed of the events returned: when the last of them that records the
\* labelling with this label was created, if there is one
LastLabelled(events, label) ==
    LET labelled(k) == events[k].event = "labeled" /\ events[k].label.name = label
    IN  IF \E k \in 1..Len(events) : labelled(k)
        THEN LET last == CHOOSE k \in 1..Len(events) :
                            labelled(k) /\ \A j \in (k + 1)..Len(events) : ~labelled(j)
             IN  events[last].created_at
        ELSE Undefined

\* client.paginate(listEvents) returns; hasCommentsSince runs up to listComments
ListEvents ==
    /\ pc = "listEvents"
    /\ \E events \in SeqsUpTo(IssueEvents, MaxEvents) :
        LET created == labelCreationDate(events, staleLabel)
            since == IF created = Undefined THEN issue.updated_at ELSE created
        IN
        /\ markedStaleOn' = since
        /\ IF since = Undefined
           THEN issueHasComments' = TRUE /\ pc' = "decide"
           ELSE issueHasComments' = issueHasComments /\ pc' = "listComments"
        /\ ev' = [ev EXCEPT !.reads = @ + 1,
                            !.labelledAt = LastLabelled(events, staleLabel)]
    /\ calls' = Called("listEvents")
    /\ UNCHANGED << options, applied, evaluated, source, issues, operationsLeft, lists, paging, issue, staleLabel, isStale,
                    issueHasUpdate, now, addedLabels, run >>

\* client.issues.listComments returns
ListComments ==
    /\ pc = "listComments"
    /\ \E comments \in SeqsUpTo(Comments, MaxComments) :
        /\ issueHasComments' = (Cardinality(filteredComments(comments)) > 0)
        /\ ev' = [ev EXCEPT
                    !.reads = @ + 1,
                    !.qualifying =
                        Cardinality({k \in 1..Len(comments) :
                            /\ comments[k].user.type = "User"
                            /\ comments[k].user.login # Actor})]
    /\ calls' = Called("listComments")
    /\ pc' = "decide"
    /\ UNCHANGED << options, applied, evaluated, source, issues, operationsLeft, lists, paging, issue, staleLabel, isStale,
                    markedStaleOn, issueHasUpdate, now, addedLabels, run >>

\* observed at line 204: the item was last updated more than
\* daysBeforeClose + daysBeforeStale days before the clock's reading
Expired(clock) ==
    clock - issue.updated_at >
        (options.daysBeforeClose + options.daysBeforeStale) * DayTicks

\* mutant of hasUpdate: measured against the close threshold alone
hasUpdate_byCloseThreshold(clock) ==
    updatedSince(issue.updated_at, options.daysBeforeClose, clock)

\* line 204
hasUpdate(clock) ==
    updatedSince(issue.updated_at, options.daysBeforeClose + options.daysBeforeStale,
                 clock)

\* mutant of closes: the early return for daysBeforeClose < 0 is missing
closes_withoutDisabledCheck(hasComments, hasUpd) == ~hasComments /\ ~hasUpd

\* mutant of closes: the comments are not consulted
closes_ignoringComments(hasComments, hasUpd) ==
    /\ ~(options.daysBeforeClose < 0)
    /\ ~hasUpd

\* lines 219-232 decide whether closeIssue is called
closes(hasComments, hasUpd) ==
    /\ ~(options.daysBeforeClose < 0)
    /\ ~hasComments /\ ~hasUpd

\* mutant of Closing: in debug mode closeIssue returns before charging the budget
Closing_unchargedInDebug(ops, hasUpd, e) ==
    IF closes(issueHasComments, hasUpd)
    THEN /\ closedIssues' = Append(closedIssues, issue.number)
         /\ operationsLeft' = IF options.debugOnly THEN ops ELSE ops - 1
         /\ ev' = [e EXCEPT !.closeIssue = TRUE]
         /\ pc' = IF options.debugOnly THEN "next" ELSE "update"
    ELSE /\ closedIssues' = closedIssues
         /\ operationsLeft' = ops
         /\ ev' = e
         /\ pc' = "next"

\* mutant of Closing: in debug mode closeIssue returns before recording the item
Closing_unrecordedInDebug(ops, hasUpd, e) ==
    IF closes(issueHasComments, hasUpd)
    THEN /\ closedIssues' = IF options.debugOnly THEN closedIssues
                            ELSE Append(closedIssues, issue.number)
         /\ operationsLeft' = ops - 1
         /\ ev' = [e EXCEPT !.closeIssue = TRUE]
         /\ pc' = IF options.debugOnly THEN "next" ELSE "update"
    ELSE /\ closedIssues' = closedIssues
         /\ operationsLeft' = ops
         /\ ev' = e
         /\ pc' = "next"

\* mutant of Closing: closeIssue records the item only when nothing is to be sent
Closing_recordedInDebugOnly(ops, hasUpd, e) ==
    IF closes(issueHasComments, hasUpd)
    THEN /\ closedIssues' = IF options.debugOnly THEN Append(closedIssues, issue.number)
                            ELSE closedIssues
         /\ operationsLeft' = ops - 1
         /\ ev' = [e EXCEPT !.closeIssue = TRUE]
         /\ pc' = IF options.debugOnly THEN "next" ELSE "update"
    ELSE /\ closedIssues' = closedIssues
         /\ operationsLeft' = ops
         /\ ev' = e
         /\ pc' = "next"

\* lines 218-232, and closeIssue up to its external call
Closing(ops, hasUpd, e) ==
    IF closes(issueHasComments, hasUpd)
    THEN /\ closedIssues' = Append(closedIssues, issue.number)
         /\ operationsLeft' = ops - 1
         /\ ev' = [e EXCEPT !.closeIssue = TRUE]
         /\ pc' = IF options.debugOnly THEN "next" ELSE "update"
    ELSE /\ closedIssues' = closedIssues
         /\ operationsLeft' = ops
         /\ ev' = e
         /\ pc' = "next"

\* lines 204-216 with removeStaleWhenUpdated && issueHasComments: removeLabel up to
\* its external call (in debug mode it returns and the closing logic follows)
Unstale ==
    /\ pc = "decide"
    /\ options.removeStaleWhenUpdated /\ issueHasComments
    /\ \E t \in ClockReads(now) :
        /\ now' = t
        /\ issueHasUpdate' = hasUpdate(t)
        /\ removedLabelIssues' = Append(removedLabelIssues, issue.number)
        /\ LET e == [ev EXCEPT !.removeLabel = TRUE, !.expired = Expired(t)]
           IN  IF options.debugOnly
               THEN Closing(operationsLeft - 1, hasUpdate(t), e)
               ELSE /\ operationsLeft' = operationsLeft - 1
                    /\ closedIssues' = closedIssues
                    /\ ev' = e
                    /\ pc' = "removeLabel"
    /\ UNCHANGED << options, applied, evaluated, source, issues, staleIssues, paging, issue, staleLabel, isStale,
                    markedStaleOn, issueHasComments, calls, addedLabels, run >>

\* lines 204-232 without the un-stale branch
NoUnstale ==
    /\ pc = "decide"
    /\ ~(options.removeStaleWhenUpdated /\ issueHasComments)
    /\ \E t \in ClockReads(now) :
        /\ now' = t
        /\ issueHasUpdate' = hasUpdate(t)
        /\ Closing(operationsLeft, hasUpdate(t),
                   [ev EXCEPT !.expired = Expired(t)])
    /\ UNCHANGED << options, applied, evaluated, source, issues, staleIssues, removedLabelIssues, paging, issue,
                    staleLabel, isStale, markedStaleOn, issueHasComments, calls,
                    addedLabels, run >>

\* client.issues.removeLabel returns; the closing logic follows
RemoveLabel ==
    /\ pc = "removeLabel"
    /\ calls' = Called("removeLabel")
    /\ applied' = [applied EXCEPT !.unlabelled = @ \cup {issue.number}]
    /\ addedLabels' = [addedLabels EXCEPT ![issue.number] = @ \ {staleLabel}]
    /\ source' = [source EXCEPT !.open = WithoutLabel(@, issue.number, staleLabel)]
    /\ Closing(operationsLeft, issueHasUpdate, [ev EXCEPT !.writes = @ + 1])
    /\ UNCHANGED << options, evaluated, issues, staleIssues, removedLabelIssues, paging, locals, now, run >>

\* client.issues.update({state: 'closed'}) returns
Update ==
    /\ pc = "update"
    /\ calls' = Called("update")
    /\ applied' = [applied EXCEPT !.closed = @ \cup {issue.number}]
    /\ source' = [source EXCEPT !.open = WithoutIssue(@, issue.number)]
    /\ ev' = [ev EXCEPT !.writes = @ + 1]
    /\ pc' = "next"
    /\ UNCHANGED << options, evaluated, issues, operationsLeft, lists, paging, locals, now,
                    addedLabels, run >>

----------------------------------------------------------------------------
(* processIssues: the end of an iteration, and of a page *)

ResetLocals ==
    /\ issue' = NoIssue
    /\ staleLabel' = <<>>
    /\ isStale' = FALSE
    /\ markedStaleOn' = Undefined
    /\ issueHasComments' = FALSE
    /\ issueHasUpdate' = FALSE
    /\ ev' = NoEv

\* the for loop moves on to the next item of the page
NextIssue ==
    /\ pc = "next"
    /\ index < issuesLength
    /\ index' = index + 1
    /\ pc' = "item"
    /\ ResetLocals
    /\ UNCHANGED << options, applied, evaluated, source, issues, operationsLeft, lists, page, issuesLength, now, calls,
                    addedLabels, run >>

\* mutant of OutOfOperations: the budget is checked after every item
OutOfOperations_midPage ==
    /\ pc = "next"
    /\ operationsLeft <= 0
    /\ pc' = "done"
    /\ ResetLocals
    /\ UNCHANGED << options, applied, evaluated, source, issues, operationsLeft, lists, paging, now, calls,
                    addedLabels, run >>

\* lines 177-180: the page is done and no operations are left
OutOfOperations ==
    /\ pc = "next"
    /\ ~(index < issuesLength)
    /\ operationsLeft <= 0
    /\ pc' = "done"
    /\ ResetLocals
    /\ UNCHANGED << options, applied, evaluated, source, issues, operationsLeft, lists, paging, now, calls,
                    addedLabels, run >>

\* line 183: do the next batch
NextPage ==
    /\ pc = "next"
    /\ ~(index < issuesLength)
    /\ ~(operationsLeft <= 0)
    /\ page' = page + 1
    /\ pc' = "getIssues"
    /\ ResetLocals
    /\ UNCHANGED << options, applied, evaluated, source, issues, operationsLeft, lists, issuesLength, index, now, calls,
                    addedLabels, run >>

----------------------------------------------------------------------------
(* Failure, and the next run *)

\* mutant of CallFails: the call that threw is attempted again
CallFails_retried ==
    /\ pc \in CallSites
    /\ calls' = Called(pc)
    /\ UNCHANGED << options, applied, evaluated, source, issues, operationsLeft, lists, paging, locals, now,
                    addedLabels, run, ev, pc >>

\* the pending external call throws: the rejection propagates out of processIssues
CallFails ==
    /\ pc \in CallSites
    /\ calls' = Called(pc)
    /\ ev' = IF pc \in {"listEvents", "listComments"} THEN [ev EXCEPT !.reads = @ + 1]
             ELSE IF pc = "getIssues" THEN ev
             ELSE [ev EXCEPT !.writes = @ + 1]
    /\ pc' = "failed"
    /\ UNCHANGED << options, applied, evaluated, source, issues, operationsLeft, lists, paging, locals, now,
                    addedLabels, run >>

\* a new IssueProcessor is constructed with the same options and run
NewRun ==
    /\ pc \in {"done", "failed"}
    /\ run < MaxRuns
    /\ run' = run + 1
    /\ operationsLeft' = options.operationsPerRun
    /\ staleIssues' = <<>>
    /\ closedIssues' = <<>>
    /\ removedLabelIssues' = <<>>
    /\ page' = 1
    /\ issuesLength' = 0
    /\ index' = 0
    /\ ResetLocals
    /\ calls' = NoCalls
    /\ issues' = <<>>
    /\ evaluated' = [n \in DOMAIN addedLabels |-> 0]
    /\ applied' = NoneApplied
    /\ pc' = "getIssues"
    /\ UNCHANGED << options, source, now, addedLabels >>

----------------------------------------------------------------------------

Next ==
    \/ GetIssues
    \/ SkipIssue
    \/ NotStale
    \/ MarkStale
    \/ FoundStale
    \/ CreateComment
    \/ AddLabels
    \/ ListEvents
    \/ ListComments
    \/ Unstale
    \/ NoUnstale
    \/ RemoveLabel
    \/ Update
    \/ NextIssue
    \/ OutOfOperations
    \/ NextPage
    \/ CallFails

Spec == Init /\ [][Next]_vars

\* the runs under one of the text configurations (the one in which no item type
\* is opted out)
InitFair == Init /\ options.stalePrMessage # ""

\* every external call returns or fails, and the code between two calls runs
FairSpec == InitFair /\ [][Next]_vars /\ WF_vars(Next)

\* the open items a repository can hold, by kind (numbered by their position):
\* last updated 100 days ago and never labelled; labelled stale 10 days ago and
\* not updated since; labelled stale with no updated_at; updated just now;
\* last updated 100 days ago and locked
RepositoryIssues ==
    LET item(updated, labels, locked) ==
            [ updated_at |-> updated, labels |-> labels, pull_request |-> FALSE,
              state |-> "open", locked |-> locked ]
    IN  { item(NowStart - 100 * DayTicks, {}, FALSE),
          item(NowStart - 10 * DayTicks, {<<"a">>}, FALSE),
          item(Undefined, {<<"A">>}, FALSE),
          item(NowStart, {}, FALSE),
          item(NowStart - 100 * DayTicks, {}, TRUE) }

\* a repository: its open items in the stable order in which it lists them, a
\* fixed page size, and label events dated 10 or 2 days ago
RepositorySources ==
    { [ kind |-> "repository",
        open |-> [k \in DOMAIN kinds |->
                    [ number |-> k, updated_at |-> kinds[k].updated_at,
                      labels |-> kinds[k].labels,
                      pull_request |-> kinds[k].pull_request,
                      state |-> kinds[k].state, locked |-> kinds[k].locked ]],
        perPage |-> per,
        eventTimes |-> {NowStart - 10 * DayTicks, NowStart - 2 * DayTicks} ] :
      kinds \in SeqsUpTo(RepositoryIssues, MaxRepositoryLen),
      per \in 1..MaxPageLen }

\* the configurations run against a repository: issues only, closing disabled or
\* after 7 days, a budget of one operation or an ample one
RepositoryOptions ==
    { o \in [ staleIssueMessage      : {"stale issue"},
              stalePrMessage         : {""},
              daysBeforeStale        : (0..MaxScenarioDaysBeforeStale) \cup {60},
              daysBeforeClose        : {-1, 7},
              staleIssueLabel        : {<<"a">>},
              exemptIssueLabels      : {<<"b", ",", " ", "C">>},
              stalePrLabel           : {<<"a">>},
              exemptPrLabels         : {<<>>},
              operationsPerRun       : {1, 20},
              removeStaleWhenUpdated : BOOLEAN,
              debugOnly              : BOOLEAN ] : TRUE }

InitRepository ==
    /\ options \in RepositoryOptions
    /\ source \in RepositorySources
    /\ addedLabels = [n \in 1..MaxRepositoryLen |-> {}]
    /\ Constructed

\* one run against a repository whose open items change only by the run's own
\* mutations
SpecRepository == InitRepository /\ [][Next]_vars

\* the open items of a repository that differ in their labels and in their
\* type, last updated two days ago, and an unlabelled one updated just now
LabelledIssues ==
    [ updated_at : {NowStart - 2 * DayTicks},
      labels : { {}, {<<"a">>}, {<<"A">>}, {<<"a^">>}, {<<"A^">>}, {<<"b">>},
                 {<<"B">>}, {<<"c">>}, {<<"C">>}, {<<"a^">>, <<"B">>} },
      pull_request : BOOLEAN, state : {"open"}, locked : {FALSE} ]
    \cup
    { [ updated_at |-> NowStart, labels |-> {}, pull_request |-> FALSE,
        state |-> "open", locked |-> FALSE ] }

LabelledSources ==
    { [ kind |-> "repository",
        open |-> [k \in DOMAIN kinds |->
                    [ number |-> k, updated_at |-> kinds[k].updated_at,
                      labels |-> kinds[k].labels,
                      pull_request |-> kinds[k].pull_request,
                      state |-> kinds[k].state, locked |-> kinds[k].locked ]],
        perPage |-> MaxPageLen,
        eventTimes |-> AnySource.eventTimes ] :
      kinds \in SeqsUpTo(LabelledIssues, MaxRepositoryLen) }

\* the configurations run against it: both text configurations, one day before
\* stale and one before close, mutations issued, labels removed on update
InitLabels ==
    /\ options \in {o \in OptionsSet :
                        /\ o.daysBeforeStale = 1 /\ o.daysBeforeClose = 1
                        /\ o.removeStaleWhenUpdated /\ ~o.debugOnly
                        /\ o.operationsPerRun > 0}
    /\ source \in LabelledSources
    /\ addedLabels = [n \in 1..MaxRepositoryLen |-> {}]
    /\ Constructed

SpecLabels == InitLabels /\ [][Next]_vars

\* runs of a processor that issues its mutations, one after the other
InitRuns ==
    /\ Init
    /\ ~options.debugOnly
    /\ options.operationsPerRun = MaxOps

NextRuns == Next \/ NewRun

SpecRuns == InitRuns /\ [][NextRuns]_vars

----------------------------------------------------------------------------
(* Claims *)

\* an evaluation has run to the end of the loop body
EvaluationDone == ev.kind = "evaluating" /\ pc = "next"

\* C1 as stated: in one evaluation an item is never both freshly marked stale
\* (markStale called) and closed (closeIssue called), whatever the configuration.
C1_NeverMarkedAndClosed == ~(ev.markStale /\ ev.closeIssue)

\* C1 amended: an item is both marked stale and closed in one evaluation only
\* when daysBeforeClose = 0; with closing disabled (daysBeforeClose < 0) or a
\* grace period of at least a day, a freshly marked item is not closed.
C1_MarkedAndClosedOnlyWhenImmediate ==
    (ev.markStale /\ ev.closeIssue) => options.daysBeforeClose = 0

\* a freshly marked item went through the closing logic with a grace period set
C1_Witness ==
    /\ EvaluationDone
    /\ ev.markStale /\ ~ev.closeIssue
    /\ options.daysBeforeClose > 0

\* C2: closeIssue is called only if daysBeforeClose >= 0, no comment by a human
\* other than the actor was returned since the stale-label timestamp, and the
\* item's (possibly synthetic) updated_at is more than daysBeforeClose +
\* daysBeforeStale days old; with daysBeforeClose < 0 nothing is ever closed.
C2_CloseOnlyIfEligible ==
    /\ ev.closeIssue =>
        /\ options.daysBeforeClose >= 0
        /\ ev.qualifying = 0
        /\ ev.expired
    /\ options.daysBeforeClose < 0 => closedIssues = <<>> /\ calls["update"] = 0

\* an item was closed, and the close was sent
C2_Witness == EvaluationDone /\ ev.closeIssue /\ calls["update"] > 0

\* C3: closeIssue is called only on an item that carried the stale label when
\* its evaluation began or was marked stale earlier in the same evaluation; an
\* item without the label that was updated recently is never closed.
C3_ClosedOnlyThroughStale ==
    /\ ev.closeIssue => (ev.hadStale \/ ev.markStale)
    /\ (ev.kind = "evaluating" /\ ~ev.hadStale /\ ev.recent) => ~ev.closeIssue

\* an item that came with the stale label was closed
C3_Witness == EvaluationDone /\ ev.closeIssue /\ ev.hadStale /\ ~ev.markStale

\* the item fell under one of the entry conditions for skipping
SkippedAtEntry == ev.emptyMessage \/ ev.closed \/ ev.locked \/ ev.exempt

\* the evaluation did nothing: no call, no bookkeeping, no budget
Untouched ==
    /\ pc = "next"
    /\ ev.reads = 0 /\ ev.writes = 0
    /\ operationsLeft = ev.ops0
    /\ ~ev.markStale /\ ~ev.closeIssue /\ ~ev.removeLabel

\* C4: an item that carries the stale label when its evaluation begins is never
\* marked stale again (no markStale, no createComment, no addLabels); and the
\* comment and the label are only ever sent for an item on which the label this
\* processor applied in this or an earlier run is not still present.
C4_StaleTransitionIdempotent ==
    /\ (ev.kind = "evaluating" /\ ev.hadStale) =>
            ~ev.markStale /\ pc \notin {"createComment", "addLabels"}
    /\ pc \in {"createComment", "addLabels"} =>
            staleLabel \notin addedLabels[issue.number]

\* in a second run, an item the first run labelled was evaluated again
C4_Witness ==
    /\ run = 2
    /\ EvaluationDone /\ ev.hadStale
    /\ calls["addLabels"] = 0
    /\ issue.number \in IssueNumbers
    /\ staleLabel \in addedLabels[issue.number]

\* C5: an item skipped at entry (empty stale message for its type, closed,
\* locked, or carrying an exempt label) causes no mutation call, no per-item
\* read call, no change of the budget and no entry in any of the three lists.
C5_SkippedItemUntouched ==
    (ev.kind = "evaluating" /\ SkippedAtEntry) => Untouched

\* an old, open, unlocked item with an exempt label was evaluated
C5_Witness ==
    /\ EvaluationDone
    /\ ev.exempt /\ ~ev.closed /\ ~ev.locked /\ ~ev.emptyMessage
    /\ ~ev.recent

\* C6: an item without the stale label whose updated_at is within
\* daysBeforeStale days of the clock (boundary included) is left alone: not
\* marked, not closed, not unstaled, no call, no change of the budget.
C6_RecentUnlabelledUntouched ==
    (ev.kind = "evaluating" /\ ~ev.hadStale /\ ev.recent) => Untouched

\* the boundary case: with daysBeforeStale = 0, an item updated at the very
\* instant of the clock's reading was evaluated
C6_Witness ==
    /\ EvaluationDone
    /\ ~SkippedAtEntry /\ ~ev.hadStale /\ ev.recent
    /\ options.daysBeforeStale = 0

max(a, b) == IF a >= b THEN a ELSE b

\* C7: every run ends, and it fetches at most max(1, operationsPerRun) pages,
\* whatever the source returns.
C7_Terminates ==
    /\ <>(pc \in {"done", "failed"})
    /\ [](calls["getIssues"] <= max(1, options.operationsPerRun))

\* the source never returned an empty page and the budget stopped the run
C7_Witness ==
    /\ pc = "done"
    /\ issuesLength > 0
    /\ options.operationsPerRun > 1
    /\ calls["getIssues"] = options.operationsPerRun

\* C8: an empty page stops the run at once; otherwise every item of the page is
\* evaluated, whatever the budget, and only then the run stops if the budget
\* is <= 0 and else fetches the next page (the k-th fetch asks for page k).
C8_Step ==
    /\ (pc = "getIssues" /\ pc' # "failed") =>
            /\ page = calls["getIssues"] + 1
            /\ IF issuesLength' = 0
               THEN pc' = "done" /\ UNCHANGED << lists, ev >>
               ELSE pc' = "item" /\ index' = 1
    /\ pc = "item" => ev'.kind = "evaluating"
    /\ pc = "next" =>
            IF index < issuesLength
            THEN pc' = "item" /\ index' = index + 1 /\ UNCHANGED page
            ELSE IF operationsLeft <= 0
            THEN pc' = "done"
            ELSE pc' = "getIssues" /\ page' = page + 1
    /\ pc' = "done" => pc \in {"getIssues", "next"}
    /\ pc = "done" => UNCHANGED calls

C8_StopsAtPageBoundaries == [][C8_Step]_vars

\* the budget ran out on the first item of a page and the second was evaluated
C8_Witness == EvaluationDone /\ index = 2 /\ ev.ops0 <= 0

\* what a step costs: 1 for a page fetched, 2 for markStale, 1 for closeIssue,
\* 1 for removeLabel, 1 for getLabelCreationDate
StepCost ==
    (IF pc = "getIssues" /\ pc' \in {"item", "done"} THEN 1 ELSE 0)
    + 2 * (Len(staleIssues') - Len(staleIssues))
    + (Len(closedIssues') - Len(closedIssues))
    + (Len(removedLabelIssues') - Len(removedLabelIssues))
    + (IF pc # "listEvents" /\ pc' = "listEvents" THEN 1 ELSE 0)

\* C9: the budget never grows, and every step lowers it by exactly the
\* documented cost of the operations it performs, in debug mode as in normal mode.
C9_BudgetCosts ==
    [][operationsLeft' <= operationsLeft /\ operationsLeft' = operationsLeft - StepCost]_vars

\* in debug mode an item was marked stale and closed: 2 + 1 + 1 operations
C9_Witness ==
    /\ options.debugOnly
    /\ EvaluationDone /\ ev.markStale /\ ev.closeIssue
    /\ operationsLeft = ev.ops0 - 4

TotalCalls ==
    calls["getIssues"] + calls["listEvents"] + calls["listComments"]
    + calls["createComment"] + calls["addLabels"] + calls["removeLabel"]
    + calls["update"]

\* C10 as stated, at the end of a run that no call failed: in a non-dry run the
\* external calls attempted equal operationsPerRun minus the remaining budget.
C10_CallsEqualBudgetSpent ==
    (pc = "done" /\ ~options.debugOnly) =>
        TotalCalls = options.operationsPerRun - operationsLeft

----------------------------------------------------------------------------
(* Dry run *)

\* the mutation calls attempted in this run
WriteCalls ==
    calls["createComment"] + calls["addLabels"] + calls["removeLabel"]
    + calls["update"]

\* what an evaluation that ran to its end has done, as a function of what the
\* collaborators returned and of the configuration without debugOnly
Outcome ==
    LET marked   == ~SkippedAtEntry /\ ~ev.hadStale /\ ~ev.recent
        stale    == ~SkippedAtEntry /\ (ev.hadStale \/ marked)
        unstaled == stale /\ options.removeStaleWhenUpdated /\ ev.qualifying > 0
        closed   == /\ stale /\ options.daysBeforeClose >= 0
                    /\ ev.qualifying = 0 /\ ev.expired
        cost(b, n) == IF b THEN n ELSE 0
    IN  /\ ev.markStale = marked
        /\ ev.removeLabel = unstaled
        /\ ev.closeIssue = closed
        /\ operationsLeft =
              ev.ops0 - (cost(marked, 2) + cost(stale, 1) + cost(unstaled, 1)
                         + cost(closed, 1))
        /\ marked => \E t \in NowStart..now :
                        issue.updated_at =
                            DateToString(t - DayTicks * options.daysBeforeStale)

C11_Step ==
    /\ options.debugOnly => WriteCalls' = 0
    /\ Len(staleIssues') - Len(staleIssues) =
          (IF ev'.markStale /\ ~ev.markStale THEN 1 ELSE 0)
    /\ Len(removedLabelIssues') - Len(removedLabelIssues) =
          (IF ev'.removeLabel /\ ~ev.removeLabel THEN 1 ELSE 0)
    /\ Len(closedIssues') - Len(closedIssues) =
          (IF ev'.closeIssue /\ ~ev.closeIssue THEN 1 ELSE 0)
    /\ EvaluationDone' => Outcome'

\* C11: a dry run attempts no mutation call, and what an evaluation does to the
\* three lists, to the budget and to the item's in-memory updated_at is one and
\* the same function of the collaborators' responses whether debugOnly is set
\* or not, so that a dry run and a run that issues its mutations produce the
\* same bookkeeping from the same responses.
C11_DryRunSameBookkeeping == [][C11_Step]_vars

\* a dry run marked an item stale and then unstaled it
C11_Witness ==
    /\ options.debugOnly
    /\ EvaluationDone /\ ev.markStale /\ ev.removeLabel
    /\ Len(staleIssues) > 0 /\ Len(removedLabelIssues) > 0
    /\ WriteCalls = 0

----------------------------------------------------------------------------
(* Comments on a stale item *)

\* C12: when listComments returned at least one comment by a human other than
\* the actor for a stale item, the evaluation never calls closeIssue, and it
\* calls removeLabel (appending the item to removedLabelIssues) if and only if
\* removeStaleWhenUpdated is set; removeLabel is called only for such an item
\* or for one whose stale-since point is missing, so no item is both unstaled
\* and closed in one evaluation.
C12_CommentedNeverClosed ==
    /\ ev.qualifying > 0 => ~ev.closeIssue
    /\ (ev.qualifying > 0 /\ pc # "decide") =>
            (ev.removeLabel <=> options.removeStaleWhenUpdated)
    /\ ev.removeLabel => (ev.qualifying > 0 \/ markedStaleOn = Undefined)
    /\ ev.removeLabel =>
            /\ Len(removedLabelIssues) > 0
            /\ removedLabelIssues[Len(removedLabelIssues)] = issue.number
    /\ ~(ev.removeLabel /\ ev.closeIssue)

\* an item old enough to be closed had a comment by a human: its stale label
\* was removed and it stayed open
C12_Witness ==
    /\ EvaluationDone
    /\ ~options.debugOnly /\ options.daysBeforeClose >= 0
    /\ ev.qualifying > 0 /\ ev.expired
    /\ ev.removeLabel /\ calls["removeLabel"] > 0
    /\ calls["update"] = 0

----------------------------------------------------------------------------
(* Scenarios against a repository *)

\* the evaluation went through both reads of processStaleIssue and to its end
StaleIssueProcessed == EvaluationDone /\ ev.reads = 2

\* C13 as stated: an open, unlocked, non-exempt item that came with the stale
\* label, applied 10 days ago according to its events, that was last updated 10
\* days ago and has no comment by a human other than the actor since, is closed
\* when daysBeforeClose = 7, whatever daysBeforeStale is.
C13_ScenarioCClosed ==
    ( /\ StaleIssueProcessed
      /\ ~SkippedAtEntry /\ ev.hadStale
      /\ options.daysBeforeClose = 7
      /\ markedStaleOn = NowStart - 10 * DayTicks
      /\ issue.updated_at = NowStart - 10 * DayTicks
      /\ ev.qualifying = 0 )
    => ev.closeIssue

----------------------------------------------------------------------------
(* Failing calls *)

C14_Step ==
    /\ (pc' = "failed" /\ pc # "failed") =>
            /\ pc \in CallSites
            /\ calls' = Called(pc)
            /\ UNCHANGED << source, addedLabels, lists, operationsLeft >>
    /\ (calls' # calls /\ run' = run) => pc' # pc
    /\ pc = "failed" =>
            /\ run' = run + 1
            /\ calls' = NoCalls
            /\ UNCHANGED << source, addedLabels >>

\* C14: a call that fails ends the run: the step in which it fails attempts
\* that one call and changes neither the repository nor the bookkeeping, no
\* call is attempted again from the point where it was attempted, and nothing
\* follows in that run -- the next thing to happen is a new run, which finds the
\* mutations applied before the failure still in place.
C14_FailureAbortsRun == [][C14_Step]_vars

\* listEvents failed right after the stale label had been added
C14_Witness ==
    /\ pc = "failed"
    /\ calls["addLabels"] = 1 /\ calls["listEvents"] = 1
    /\ issue.number \in IssueNumbers
    /\ staleLabel \in addedLabels[issue.number]

\* the operations charged for the budgeted calls attempted so far: one per page
\* fetch, two per stale transition, one per close, one per label removal, one
\* per fetch of the label events
ChargeForAttempts ==
    calls["getIssues"] + 2 * Len(staleIssues) + Len(closedIssues)
    + Len(removedLabelIssues) + calls["listEvents"]

\* C15 as stated: when the failure of a call propagates, the budget has been
\* lowered by the cost of every budgeted call attempted, the failed one included.
C15_ChargedOnAttempt ==
    pc = "failed" =>
        options.operationsPerRun - operationsLeft = ChargeForAttempts

----------------------------------------------------------------------------
(* Progress across the pages of a repository *)

\* the items that were open when the run started: those still open and those
\* the run has closed
OpenAtStart == 1..(Len(source.open) + calls["update"])

\* C16 as stated: when a run that issues its mutations and has an ample budget
\* stops on an empty page of a repository, every item that was open when the
\* run started has been evaluated exactly once.
C16_EveryOpenItemEvaluatedOnce ==
    ( /\ source.kind = "repository"
      /\ ~options.debugOnly /\ options.operationsPerRun = 20
      /\ pc = "done" /\ issuesLength = 0 )
    => \A n \in OpenAtStart : evaluated[n] = 1

----------------------------------------------------------------------------
(* The synthetic timestamp of markStale *)

C17_Step ==
    /\ (ev'.markStale /\ ~ev.markStale) =>
            /\ issue'.updated_at =
                  DateToString(now' - DayTicks * options.daysBeforeStale)
            /\ Len(staleIssues') = Len(staleIssues) + 1
    /\ (ev.markStale /\ ev'.markStale) => issue' = issue
    /\ (ev.markStale /\ pc = "listEvents" /\ pc' # "failed") =>
            /\ ~options.debugOnly =>
                    /\ calls["createComment"] > 0
                    /\ staleLabel \in addedLabels[issue.number]
            /\ markedStaleOn' =
                  IF ev'.labelledAt = Undefined THEN issue.updated_at
                  ELSE ev'.labelledAt
    /\ (ev.markStale /\ pc = "decide") =>
            issueHasUpdate' =
                (now' - issue.updated_at
                    <= (options.daysBeforeClose + options.daysBeforeStale) * DayTicks)

\* C17: markStale rewrites the item's in-memory updated_at to the clock's
\* reading less daysBeforeStale days, as printed by Date.toString (whole
\* seconds), in dry runs too; the rest of the evaluation works on that
\* timestamp: it is the stale-since point when no labeled event for the stale
\* label is returned, and issueHasUpdate is computed from it.  In a run that
\* issues its mutations the comment and the label have been sent by then.
C17_SyntheticTimestamp == [][C17_Step]_vars

\* Scenario A: an unlabelled item last updated 100 days ago, with
\* daysBeforeStale = 60, got the comment and the label and was then treated as
\* last updated 60 days ago: not closed with daysBeforeClose = 7
C17_Witness ==
    /\ source.kind = "repository"
    /\ EvaluationDone /\ ev.markStale /\ ~options.debugOnly
    /\ options.daysBeforeStale = 60 /\ options.daysBeforeClose = 7
    /\ \E k \in DOMAIN source.open :
            /\ source.open[k].number = issue.number
            /\ source.open[k].updated_at = NowStart - 100 * DayTicks
            /\ <<"a">> \in source.open[k].labels
    /\ calls["createComment"] = 1 /\ calls["addLabels"] = 1
    /\ issue.updated_at = NowStart - 60 * DayTicks
    /\ markedStaleOn = issue.updated_at
    /\ issueHasUpdate /\ ~ev.closeIssue

----------------------------------------------------------------------------
(* The stale-since point *)

C18_Step ==
    /\ (pc = "listEvents" /\ pc' # "failed") =>
            /\ markedStaleOn' =
                  IF ev'.labelledAt # Undefined THEN ev'.labelledAt
                  ELSE issue.updated_at
            /\ IF markedStaleOn' = Undefined
               THEN issueHasComments' /\ pc' = "decide"
               ELSE pc' = "listComments"
    /\ (pc = "listComments" /\ pc' # "failed") =>
            /\ markedStaleOn # Undefined
            /\ issueHasComments' = (ev'.qualifying > 0)
    /\ (ev.kind = "evaluating" /\ ev.reads > 0 /\ markedStaleOn = Undefined
            /\ ev'.kind = "evaluating") =>
            /\ ~ev'.closeIssue
            /\ calls'["listComments"] = calls["listComments"]
            /\ calls'["update"] = calls["update"]

\* C18: the stale-since point is the creation time of the last returned
\* 'labeled' event that names the stale label, or the item's updated_at when
\* there is none; when that point is missing, hasComments is true, no comments
\* are fetched and the item is not closed in that evaluation; otherwise
\* hasComments is true exactly if a fetched comment is by a 'User' whose login
\* is not the actor's.
C18_StaleSincePoint == [][C18_Step]_vars

\* an item with the stale label but neither a label event nor an updated_at
\* went through the closing logic with closing enabled, and stayed open
C18_Witness ==
    /\ EvaluationDone /\ ev.hadStale
    /\ markedStaleOn = Undefined /\ ev.labelledAt = Undefined
    /\ issueHasComments /\ ev.reads = 1 /\ calls["listComments"] = 0
    /\ options.daysBeforeClose = 7 /\ ~options.removeStaleWhenUpdated
    /\ ~ev.closeIssue

----------------------------------------------------------------------------
(* Label membership *)

\* the base letter: without its accent and in lower case
BaseLetter(c) ==
    CASE c \in {"a", "A", "a^", "A^"} -> "a"
      [] c \in {"b", "B"}             -> "b"
      [] c \in {"c", "C"}             -> "c"
      [] OTHER                        -> c

HasAccent(c) == c \in {"a^", "A^"}

\* the two names differ at most in letter case and in accents
SameBaseLetters(x, y) ==
    /\ Len(x) = Len(y)
    /\ \A k \in 1..Len(x) : BaseLetter(x[k]) = BaseLetter(y[k])

\* the two names differ at most in letter case
SameButForCase(x, y) ==
    /\ SameBaseLetters(x, y)
    /\ \A k \in 1..Len(x) : HasAccent(x[k]) = HasAccent(y[k])

\* the item under evaluation, as the repository returned it
Fetched == issues[index]

ExemptNames ==
    {exemptLabelsOf(Fetched)[k] : k \in 1..Len(exemptLabelsOf(Fetched))}

----------------------------------------------------------------------------
(* C20 *)

\* the issue numbers recorded in a list
Recorded(list) == {list[k] : k \in 1..Len(list)}

\* C20: at every point of a run that is not a dry run, also after a call has
\* failed, every issue the stale label was added to is in staleIssues and had
\* the stale comment posted before, every issue that was closed is in
\* closedIssues, and every issue the stale label was removed from is in
\* removedLabelIssues.
C20_ListsCoverMutations ==
    ~options.debugOnly =>
        /\ applied.labelled \subseteq Recorded(staleIssues)
        /\ applied.labelled \subseteq applied.commented
        /\ applied.commented \subseteq Recorded(staleIssues)
        /\ applied.closed \subseteq Recorded(closedIssues)
        /\ applied.unlabelled \subseteq Recorded(removedLabelIssues)

\* a run that posted the stale comment on an issue, added the stale label to
\* it and closed an issue was then aborted by a failing call
C20_Witness ==
    /\ ~options.debugOnly
    /\ pc = "failed"
    /\ applied.labelled # {}
    /\ applied.closed # {}

====
